---------------------------- MODULE Spec2Model ----------------------------
(***************************************************************************)
(* Model of the four-week vacation calendar (my_calendar.py) and of the   *)
(* Slack uploader (post_to_slack.py).                                      *)
(*                                                                         *)
(* Dates are proleptic Gregorian ordinals, the representation on which     *)
(* datetime.date does its arithmetic and comparisons; a year-month-day     *)
(* triple is turned into an ordinal by Ymd2Ord, as date(y, m, d) does.     *)
(* A Python list is a sequence, so that Python's index i is index i + 1.   *)
(***************************************************************************)
EXTENDS Integers, Sequences, FiniteSets, TLC

VARIABLES
    pc,                     \* position of the running entry point
    today,                  \* the reference date (argument or datetime.now())
    file,                   \* vacation_data.json: "absent" or a list of rows
    raw_events,             \* load_events_from_json: the local raw_events
    events,                 \* self.events
    member_colors,          \* self.member_colors
    load_error,             \* which except clause of the loader ran
    weeks,                  \* the rows returned by get_four_week_range
    date_event_positions,   \* the layout: date -> list of lanes
    layout_position,        \* event['layout_position'], None while unset
    cell_height,            \* self.cell_height
    svg_rects,              \* the event rectangles written to the SVG
    env,                    \* post_to_slack: token, channel, file presence
    requests,               \* post_to_slack: the HTTP requests issued so far
    exit_status             \* post_to_slack: the exit status, None while running

vars == <<pc, today, file, raw_events, events, member_colors, load_error,
          weeks, date_event_positions, layout_position, cell_height,
          svg_rects, env, requests, exit_status>>

calVars == <<file, raw_events, events, member_colors, load_error,
             date_event_positions, layout_position, cell_height, svg_rects>>

slackVars == <<env, requests, exit_status>>

-----------------------------------------------------------------------------
(* Python values                                                           *)

\* None where a string is expected (dict.get of a missing key).
NoneStr == "<None>"

\* None where a number or an object reference is expected.
None == -1

Max(a, b) == IF a >= b THEN a ELSE b

Min(a, b) == IF a <= b THEN a ELSE b

Range(s) == {s[i] : i \in DOMAIN s}

-----------------------------------------------------------------------------
(* datetime.date                                                           *)

IsLeap(y) == (y % 4 = 0) /\ ((y % 100 # 0) \/ (y % 400 = 0))

DaysInMonth(y, m) ==
    IF m = 2 THEN (IF IsLeap(y) THEN 29 ELSE 28)
    ELSE IF m \in {4, 6, 9, 11} THEN 30 ELSE 31

RECURSIVE DaysBeforeMonth(_, _)
DaysBeforeMonth(y, m) ==
    IF m <= 1 THEN 0 ELSE DaysBeforeMonth(y, m - 1) + DaysInMonth(y, m - 1)

DaysBeforeYear(y) ==
    (y - 1) * 365 + ((y - 1) \div 4) - ((y - 1) \div 100) + ((y - 1) \div 400)

\* date(y, m, d).toordinal()
Ymd2Ord(y, m, d) == DaysBeforeYear(y) + DaysBeforeMonth(y, m) + d

ValidYmd(y, m, d) == y >= 1 /\ m \in 1..12 /\ d >= 1 /\ d <= DaysInMonth(y, m)

\* date.weekday(): Monday is 0, Sunday is 6.
weekday(d) == (d + 6) % 7

-----------------------------------------------------------------------------
(* The date window                                                         *)

\* get_week_range with weeks that start on Sunday.
get_week_range_from_sunday(target_date) ==
    LET days_since_sunday == (weekday(target_date) + 1) % 7
        sunday == target_date - days_since_sunday
    IN  [i \in 1..7 |-> sunday + (i - 1)]

get_week_range(target_date) ==
    LET days_since_monday == weekday(target_date)
        monday == target_date - days_since_monday
    IN  [i \in 1..7 |-> monday + (i - 1)]

get_four_week_range(t) ==
    LET current_week == get_week_range(t)
        prev_week_start == current_week[1] - 7
        prev_week == get_week_range(prev_week_start)
        next_week1_start == current_week[1] + 7
        next_week1 == get_week_range(next_week1_start)
        next_week2_start == current_week[1] + 14
        next_week2 == get_week_range(next_week2_start)
    IN  <<prev_week, current_week, next_week1, next_week2>>

-----------------------------------------------------------------------------
(* The loader                                                              *)

\* A timestamp string of a row: the text "YYYY-MM-DDT00:00:00" followed by
\* the zone designator `zone', or no string at all (zone = NoneStr) when the
\* row has no such key.  zone = "" is the bare form "YYYY-MM-DD".
NoStamp == [y |-> 0, m |-> 0, d |-> 0, zone |-> NoneStr]

Stamp(y, m, d, zone) == [y |-> y, m |-> m, d |-> d, zone |-> zone]

\* The value of a failed datetime.fromisoformat (ValueError).
ValueError == 0

\* datetime.fromisoformat(s[:-1]).date(): the last character is dropped
\* whatever it is, so only a one-character designator leaves an ISO string;
\* the bare form loses its last digit and a numeric offset its last digit.
fromisoformat_date(s) ==
    IF s.zone = "Z" /\ ValidYmd(s.y, s.m, s.d)
    THEN Ymd2Ord(s.y, s.m, s.d)
    ELSE ValueError

\* Truthiness of row.get(key).
TruthyStamp(s) == s.zone # NoneStr

TruthyStr(s) == s # NoneStr /\ s # ""

RowSelected(row) ==
    /\ TruthyStamp(row.start) /\ TruthyStamp(row.end)
    /\ TruthyStr(row.name) /\ TruthyStr(row.title)

RowRaises(row) ==
    /\ RowSelected(row)
    /\ \/ fromisoformat_date(row.start) = ValueError
       \/ fromisoformat_date(row.end) = ValueError

RowEvent(row) ==
    [start_date  |-> fromisoformat_date(row.start),
     end_date    |-> fromisoformat_date(row.end),
     member      |-> row.name,
     description |-> row.title]

\* The for loop over data: raw_events as it stands when the loop ends, be it
\* at the end of data or at the first row that raises.
RECURSIVE ReadRows(_, _, _)
ReadRows(data, i, raw) ==
    IF i > Len(data) THEN [raw_events |-> raw, raised |-> FALSE]
    ELSE IF RowRaises(data[i]) THEN [raw_events |-> raw, raised |-> TRUE]
    ELSE IF RowSelected(data[i])
         THEN ReadRows(data, i + 1, Append(raw, RowEvent(data[i])))
         ELSE ReadRows(data, i + 1, raw)

EventKey(event) == <<event.member, event.start_date, event.end_date>>

\* A dict that keeps the first event stored under a key.
DictSetDefault(event_dict, event) ==
    IF \E i \in DOMAIN event_dict : EventKey(event_dict[i]) = EventKey(event)
    THEN event_dict
    ELSE Append(event_dict, event)

\* event_dict[key] = event on a dict kept in insertion order.
DictSet(event_dict, event) ==
    IF \E i \in DOMAIN event_dict : EventKey(event_dict[i]) = EventKey(event)
    THEN [i \in DOMAIN event_dict |->
            IF EventKey(event_dict[i]) = EventKey(event)
            THEN event ELSE event_dict[i]]
    ELSE Append(event_dict, event)

RECURSIVE DedupLoop(_, _, _)
DedupLoop(evs, i, event_dict) ==
    IF i > Len(evs) THEN event_dict
    ELSE DedupLoop(evs, i + 1, DictSet(event_dict, evs[i]))

remove_duplicate_events(evs) == DedupLoop(evs, 1, <<>>)

colors == <<"#ffb3ba", "#bae1ff", "#baffc9", "#ffffba", "#ffdfba",
            "#e0bbe4", "#d4d4aa", "#ffc9c9", "#c9e4ff", "#d4ffd4",
            "#ffffe0", "#ffe4e1", "#f0f8ff", "#f0fff0", "#ffefd5",
            "#e6e6fa", "#f5deb3", "#ffe4b5", "#dda0dd", "#98fb98">>

\* The member names of the model, in the order sorted() gives them.
MemberOrder == <<"a", "b">>

SortedMembers(members) == SelectSeq(MemberOrder, LAMBDA n : n \in members)

assign_member_colors(old, members) ==
    [n \in (DOMAIN old) \cup Range(members) |->
        IF n \in Range(members)
        THEN LET i == CHOOSE j \in DOMAIN members : members[j] = n
             IN  colors[((i - 1) % Len(colors)) + 1]
        ELSE old[n]]

\* The empty dict.
EmptyDict == [n \in {} |-> ""]

UnsetPositions(evs) == [k \in DOMAIN evs |-> None]

load_events_from_json ==
    IF file.kind = "absent"
    THEN /\ load_error' = "FileNotFoundError"
         /\ raw_events' = <<>>
         /\ UNCHANGED <<events, member_colors, layout_position>>
    ELSE IF file.kind # "array"
    THEN /\ load_error' = "Exception"
         /\ raw_events' = <<>>
         /\ UNCHANGED <<events, member_colors, layout_position>>
    ELSE LET r == ReadRows(file.data, 1, <<>>)
         IN  /\ raw_events' = r.raw_events
             /\ IF r.raised
                THEN /\ load_error' = "Exception"
                     /\ UNCHANGED <<events, member_colors, layout_position>>
                ELSE /\ load_error' = NoneStr
                     /\ events' = remove_duplicate_events(r.raw_events)
                     /\ layout_position' = UnsetPositions(events')
                     /\ member_colors' =
                            assign_member_colors(member_colors,
                                SortedMembers({e.member : e \in Range(r.raw_events)}))

-----------------------------------------------------------------------------
(* The layout                                                              *)

RECURSIVE Flatten(_)
Flatten(wks) == IF wks = <<>> THEN <<>> ELSE Head(wks) \o Flatten(Tail(wks))

\* get_events_for_date_range, as the indices into self.events, in list order.
get_events_for_date_range(evs, start_date, end_date) ==
    SelectSeq([k \in DOMAIN evs |-> k],
              LAMBDA k : ~(evs[k].end_date < start_date \/ evs[k].start_date > end_date))

\* The dates collected by the inner while loop.
event_dates(event, start_date, end_date) ==
    Max(event.start_date, start_date) .. Min(event.end_date, end_date)

\* can_place that takes the last filled slot of a date for a free one.
can_place_off_by_one(dep, dates, position) ==
    \A date \in dates :
        ~(position + 1 < Len(dep[date]) /\ dep[date][position + 1] # None)

can_place(dep, dates, position) ==
    \A date \in dates :
        ~(position < Len(dep[date]) /\ dep[date][position + 1] # None)

\* The while True loop: the first position at which can_place holds.
RECURSIVE FirstPosition(_, _, _)
FirstPosition(dep, dates, position) ==
    IF can_place(dep, dates, position) THEN position
    ELSE FirstPosition(dep, dates, position + 1)

\* Pad the lists of the event's dates with None up to position, then store k.
PlaceEvent(dep, dates, position, k) ==
    [date \in DOMAIN dep |->
        IF date \in dates
        THEN [i \in 1..Max(Len(dep[date]), position + 1) |->
                IF i = position + 1 THEN k
                ELSE IF i <= Len(dep[date]) THEN dep[date][i] ELSE None]
        ELSE dep[date]]

\* The for loop over relevant_events, from its i-th element on.
RECURSIVE LayoutLoop(_, _, _, _, _, _)
LayoutLoop(evs, relevant, i, start_date, end_date, st) ==
    IF i > Len(relevant) THEN st
    ELSE LET k == relevant[i]
             dates == event_dates(evs[k], start_date, end_date)
             position == FirstPosition(st.date_event_positions, dates, 0)
         IN  LayoutLoop(evs, relevant, i + 1, start_date, end_date,
                 [date_event_positions |->
                      PlaceEvent(st.date_event_positions, dates, position, k),
                  layout_position |->
                      [st.layout_position EXCEPT ![k] = position]])

\* calculate_event_layout on self.events = evs whose layout positions are lp:
\* the returned dict, whose slots hold indices into self.events, and the
\* layout positions it leaves on the events.
calculate_event_layout(evs, lp, wks) ==
    LET all_dates == Flatten(wks)
        start_date == all_dates[1]
        end_date == all_dates[Len(all_dates)]
        relevant_events == get_events_for_date_range(evs, start_date, end_date)
    IN  LayoutLoop(evs, relevant_events, 1, start_date, end_date,
            [date_event_positions |-> [date \in Range(all_dates) |-> <<>>],
             layout_position |-> lp])

event_height == 18

DefaultCellHeight == 140

SetMax(S) == CHOOSE x \in S : \A y \in S : y <= x

\* generate_svg, lines 150 to 152.
CellHeight(dep, old) ==
    LET max_events == SetMax({Len(dep[date]) : date \in DOMAIN dep} \cup {0})
    IN  IF max_events > 0
        THEN Max(120, 60 + max_events * (event_height + 2))
        ELSE old

\* generate_svg, lines 211 to 256: one rectangle per row and event, drawn on
\* the date the event starts in the row.  drawn_events never suppresses a
\* rectangle: only one date of a row equals event_start_in_week.
EventRects(evs, dep, wks) ==
    {[week_idx |-> w - 1, day_idx |-> c - 1, pos |-> p - 1, event |-> dep[wks[w][c]][p],
      event_length |->
          weekday(Min(evs[dep[wks[w][c]][p]].end_date, wks[w][7]))
          - weekday(Max(evs[dep[wks[w][c]][p]].start_date, wks[w][1])) + 1] :
        <<w, c, p>> \in
          {t \in (DOMAIN wks) \X (1..7) \X (1..Len(evs)) :
             /\ wks[t[1]][t[2]] \in DOMAIN dep
             /\ t[3] <= Len(dep[wks[t[1]][t[2]]])
             /\ dep[wks[t[1]][t[2]]][t[3]] # None
             /\ LET date == wks[t[1]][t[2]]
                    event == evs[dep[date][t[3]]]
                IN  /\ event.start_date <= date /\ date <= event.end_date
                    /\ Max(event.start_date, wks[t[1]][1]) = date}}

generate_svg ==
    LET wks == get_four_week_range(today)
        lay == calculate_event_layout(events, layout_position, wks)
    IN  /\ weeks' = wks
        /\ date_event_positions' = lay.date_event_positions
        /\ layout_position' = lay.layout_position
        /\ cell_height' = CellHeight(lay.date_event_positions, cell_height)
        /\ svg_rects' = EventRects(events, lay.date_event_positions, wks)

-----------------------------------------------------------------------------
(* main of my_calendar.py                                                  *)

MainLoad ==
    /\ pc = "start"
    /\ load_events_from_json
    /\ pc' = "loaded"
    /\ UNCHANGED <<today, file, weeks, date_event_positions, cell_height,
                   svg_rects, slackVars>>

\* if not generator.events: return
MainNoEvents ==
    /\ pc = "loaded"
    /\ events = <<>>
    /\ pc' = "done"
    /\ UNCHANGED <<today, weeks, calVars, slackVars>>

MainGenerateSvg ==
    /\ pc = "loaded"
    /\ events # <<>>
    /\ generate_svg
    /\ pc' = "rendered"
    /\ UNCHANGED <<today, file, raw_events, events, member_colors, load_error,
                   slackVars>>

\* Rasterising, uploading and printing leave the generator as it is.
MainFinish ==
    /\ pc = "rendered"
    /\ pc' = "done"
    /\ UNCHANGED <<today, weeks, calVars, slackVars>>

MainNext == MainLoad \/ MainNoEvents \/ MainGenerateSvg \/ MainFinish

IdleSlack ==
    /\ env = [token |-> NoneStr, channel |-> NoneStr, file_exists |-> FALSE]
    /\ requests = <<>>
    /\ exit_status = None

FreshGenerator ==
    /\ raw_events = <<>>
    /\ events = <<>>
    /\ member_colors = EmptyDict
    /\ load_error = NoneStr
    /\ weeks = <<>>
    /\ date_event_positions = <<>>
    /\ layout_position = <<>>
    /\ cell_height = DefaultCellHeight
    /\ svg_rects = {}

-----------------------------------------------------------------------------
(* Inputs and specifications of the calendar run                           *)

MaxRecords == 2

MaxEvents == 3

SeqsUpTo(S, n) == UNION {[1..k -> S] : k \in 0..n}

Rows(stamps, names, titles) ==
    [start : stamps, end : stamps, name : names, title : titles]

ArrayFile(data) == [kind |-> "array", data |-> data]

\* Wednesday 8 January 2025: the window is 30 December 2024 to 26 January 2025.
LoaderToday == Ymd2Ord(2025, 1, 8)

\* Two dates inside that window, one before it, a bare date and a missing key.
LoaderStamps ==
    {Stamp(2025, 1, 6, "Z"), Stamp(2025, 1, 7, "Z"), Stamp(2024, 11, 1, "Z"),
     Stamp(2025, 1, 6, ""), NoStamp}

LoaderFiles ==
    {[kind |-> "absent", data |-> <<>>], [kind |-> "garbage", data |-> <<>>]}
    \cup {ArrayFile(data) :
            data \in SeqsUpTo(Rows(LoaderStamps, {"a", "b"}, {"x"}), MaxRecords)}

InitLoader ==
    /\ pc = "start"
    /\ today = LoaderToday
    /\ file \in LoaderFiles
    /\ FreshGenerator
    /\ IdleSlack

SpecLoader == InitLoader /\ [][MainNext]_vars

\* Wednesday 8 January 2025 again: the first row ends on Sunday 5 January and
\* the second row starts on Monday 6 January.
LayoutToday == Ymd2Ord(2025, 1, 8)

\* The Sunday before the window, the last day of the first row and the first
\* two days of the second row.
LayoutStamps ==
    {Stamp(2024, 12, 29, "Z"), Stamp(2025, 1, 5, "Z"),
     Stamp(2025, 1, 6, "Z"), Stamp(2025, 1, 7, "Z")}

\* Member a with every pair of these dates, member b with Monday to Tuesday.
LayoutRows ==
    {row \in Rows(LayoutStamps, {"a", "b"}, {"x"}) :
        row.name = "b" =>
            row.start = Stamp(2025, 1, 6, "Z") /\ row.end = Stamp(2025, 1, 7, "Z")}

LayoutFiles == {ArrayFile(data) : data \in SeqsUpTo(LayoutRows, MaxEvents)}

InitLayout ==
    /\ pc = "start"
    /\ today = LayoutToday
    /\ file \in LayoutFiles
    /\ FreshGenerator
    /\ IdleSlack

SpecLayout == InitLayout /\ [][MainNext]_vars

-----------------------------------------------------------------------------
(* Properties of the layout                                                *)

SetMin(S) == CHOOSE x \in S : \A y \in S : x <= y

LaidOut == weeks # <<>>

Placed(k) == layout_position[k] # None

WindowStart == weeks[1][1]

WindowEnd == weeks[Len(weeks)][7]

\* The dates of row r on which event k is visible.
VisibleDates(k, r) ==
    Max(events[k].start_date, weeks[r][1]) .. Min(events[k].end_date, weeks[r][7])

\* C1: after the layout no two distinct events with the same lane are visible
\* in the same row on a common date, and every date and lane of an event's
\* visible range holds that event and no other.
C1_NoLaneCollision ==
    LaidOut =>
        /\ \A r \in DOMAIN weeks : \A i, j \in DOMAIN events :
              (i # j /\ Placed(i) /\ Placed(j)
                   /\ layout_position[i] = layout_position[j])
                  => VisibleDates(i, r) \cap VisibleDates(j, r) = {}
        /\ \A r \in DOMAIN weeks : \A k \in DOMAIN events :
              \A date \in VisibleDates(k, r) :
                  /\ Placed(k)
                  /\ layout_position[k] < Len(date_event_positions[date])
                  /\ date_event_positions[date][layout_position[k] + 1] = k

\* A layout in which one event ends on the day another starts, the two in
\* different lanes, while two further events of one row share a lane.
C1_Witness ==
    /\ LaidOut
    /\ \E i, j \in DOMAIN events :
          /\ i # j
          /\ events[i].start_date < events[i].end_date
          /\ events[i].end_date = events[j].start_date
          /\ events[j].start_date <= events[j].end_date
          /\ WindowStart <= events[j].start_date
          /\ layout_position[i] # layout_position[j]
    /\ \E i, j \in DOMAIN events : \E r \in DOMAIN weeks :
          /\ i # j
          /\ VisibleDates(i, r) # {} /\ VisibleDates(j, r) # {}
          /\ layout_position[i] = layout_position[j]

\* The number of lanes used in row r.
LanesUsed(r) ==
    SetMax({p \in 1..Len(events) :
               \E date \in Range(weeks[r]) :
                   /\ p <= Len(date_event_positions[date])
                   /\ date_event_positions[date][p] # None} \cup {0})

\* The largest number of events present on one date of row r.
CliqueSize(r) ==
    SetMax({Cardinality({k \in DOMAIN events :
                            events[k].start_date <= date /\ date <= events[k].end_date}) :
               date \in Range(weeks[r])})

\* C2: in every row the number of lanes used equals the largest number of
\* events present on a single date of that row.
C2_LaneCountIsClique ==
    LaidOut => \A r \in DOMAIN weeks : LanesUsed(r) = CliqueSize(r)

\* self.events without its k-th element.
WithoutEvent(evs, k) ==
    [i \in 1..(Len(evs) - 1) |-> IF i < k THEN evs[i] ELSE evs[i + 1]]

\* C7: the lanes of a row depend only on the events that intersect the row:
\* taking away an event that does not intersect row r leaves the lane of every
\* event visible in row r as it was.
C7_RowsIndependent ==
    LaidOut =>
        \A r \in DOMAIN weeks : \A k \in DOMAIN events :
            VisibleDates(k, r) = {} =>
                LET evs2 == WithoutEvent(events, k)
                    lay2 == calculate_event_layout(evs2, UnsetPositions(evs2), weeks)
                IN  \A j \in DOMAIN events :
                        (j # k /\ VisibleDates(j, r) # {}) =>
                            lay2.layout_position[IF j < k THEN j ELSE j - 1]
                                = layout_position[j]

\* The lanes holding an event placed before event k, and the end date of such
\* a lane: the latest visible end of the events placed in it before k.
LanesBefore(k) == {layout_position[j] : j \in {i \in 1..(k - 1) : Placed(i)}}

LaneEnd(lane, k) ==
    SetMax({Min(events[j].end_date, WindowEnd) :
               j \in {i \in 1..(k - 1) : Placed(i) /\ layout_position[i] = lane}})

\* C9: each event is in the lowest lane, among those holding an earlier
\* event, whose end date is strictly before the event's visible start, and in
\* a new lane only if there is none.
C9_FirstFitByLaneEnd ==
    LaidOut =>
        \A k \in DOMAIN events :
            Placed(k) =>
                LET fits == {lane \in LanesBefore(k) :
                                LaneEnd(lane, k) < Max(events[k].start_date, WindowStart)}
                IN  layout_position[k] =
                        IF fits # {} THEN SetMin(fits)
                        ELSE Cardinality(LanesBefore(k))

-----------------------------------------------------------------------------
(* Properties of the loader and of main                                    *)

Loaded == pc # "start"

\* A row with all four fields and two parseable timestamps.
RowValid(row) == RowSelected(row) /\ ~RowRaises(row)

\* C3: the loader fails per record: whatever the other rows are, every valid
\* row of the array is loaded and the rows with a missing or unparseable start
\* or end are the only ones left out.
C3_PerRecordFailure ==
    (Loaded /\ file.kind = "array") =>
        {EventKey(e) : e \in Range(events)}
            = {EventKey(RowEvent(row)) : row \in {x \in Range(file.data) : RowValid(x)}}

\* C4: every loaded event is normalized and clipped:
\* windowStart <= start <= end <= windowEnd.
C4_EventsNormalized ==
    Loaded =>
        LET wks == get_four_week_range(today)
        IN  \A e \in Range(events) :
                /\ wks[1][1] <= e.start_date
                /\ e.start_date <= e.end_date
                /\ e.end_date <= wks[4][7]

EmptyInput == file.kind = "absent" \/ (file.kind = "array" /\ file.data = <<>>)

\* C8: with an absent file or an empty array the run ends with zero events
\* and with the layout made, an empty lane list on every date of the window.
C8_EmptyInputRenders ==
    (pc = "done" /\ EmptyInput) =>
        /\ events = <<>>
        /\ LaidOut
        /\ \A date \in Range(Flatten(weeks)) : date_event_positions[date] = <<>>

-----------------------------------------------------------------------------
(* remove_duplicate_events on any list                                     *)

MaxListLen == 3

DedupInputs ==
    SeqsUpTo([start_date : {Ymd2Ord(2025, 1, 6), Ymd2Ord(2025, 1, 7)},
              end_date : {Ymd2Ord(2025, 1, 6), Ymd2Ord(2025, 1, 7)},
              member : {"a", "b"}, description : {"x", "y"}], MaxListLen)

InitDedup ==
    /\ pc = "start"
    /\ today = LoaderToday
    /\ file = [kind |-> "absent", data |-> <<>>]
    /\ raw_events \in DedupInputs
    /\ events = <<>>
    /\ member_colors = EmptyDict
    /\ load_error = NoneStr
    /\ weeks = <<>>
    /\ date_event_positions = <<>>
    /\ layout_position = <<>>
    /\ cell_height = DefaultCellHeight
    /\ svg_rects = {}
    /\ IdleSlack

RemoveDuplicateEvents ==
    /\ pc = "start"
    /\ events' = remove_duplicate_events(raw_events)
    /\ pc' = "done"
    /\ UNCHANGED <<today, file, raw_events, member_colors, load_error, weeks,
                   date_event_positions, layout_position, cell_height,
                   svg_rects, slackVars>>

SpecDedup == InitDedup /\ [][RemoveDuplicateEvents]_vars

\* The last index of raw_events holding the key of event e.
LastIndexOf(e) ==
    SetMax({i \in DOMAIN raw_events : EventKey(raw_events[i]) = EventKey(e)})

\* C5: the result has no two events with the same (member, start, end), holds
\* every key of the input exactly once, and for each key the last record of
\* the input with that key.
C5_DedupLastWins ==
    pc = "done" =>
        /\ \A i, j \in DOMAIN events :
              i # j => EventKey(events[i]) # EventKey(events[j])
        /\ {EventKey(e) : e \in Range(events)} = {EventKey(e) : e \in Range(raw_events)}
        /\ \A i \in DOMAIN events : events[i] = raw_events[LastIndexOf(events[i])]

\* A key that occurs twice with two descriptions, next to another key.
C5_Witness ==
    /\ pc = "done"
    /\ Len(events) >= 2
    /\ \E i, j \in DOMAIN raw_events :
          /\ i < j
          /\ EventKey(raw_events[i]) = EventKey(raw_events[j])
          /\ raw_events[i].description # raw_events[j].description

-----------------------------------------------------------------------------
(* get_four_week_range on any reference date                               *)

NumRefDates == 60

\* The reference dates: from 1 December 2024 on, across the end of the year.
RefDates == Ymd2Ord(2024, 12, 1) .. (Ymd2Ord(2024, 12, 1) + NumRefDates - 1)

InitWindow ==
    /\ pc = "start"
    /\ today \in RefDates
    /\ file = [kind |-> "absent", data |-> <<>>]
    /\ FreshGenerator
    /\ IdleSlack

GetFourWeekRange ==
    /\ pc = "start"
    /\ weeks' = get_four_week_range(today)
    /\ pc' = "done"
    /\ UNCHANGED <<today, calVars, slackVars>>

SpecWindow == InitWindow /\ [][GetFourWeekRange]_vars

\* C6: 4 rows of 7 dates, none null, each date one day after the one before,
\* every row from a Monday to a Sunday, and the reference date in the second
\* row and not in the first.
C6_FourWholeWeeks ==
    pc = "done" =>
        /\ Len(weeks) = 4
        /\ \A r \in DOMAIN weeks :
              /\ Len(weeks[r]) = 7
              /\ \A c \in DOMAIN weeks[r] : weeks[r][c] # None
              /\ weekday(weeks[r][1]) = 0
              /\ weekday(weeks[r][7]) = 6
        /\ LET all_dates == Flatten(weeks)
           IN  /\ Len(all_dates) = 28
               /\ \A i \in 1..(Len(all_dates) - 1) : all_dates[i + 1] = all_dates[i] + 1
        /\ \E c \in DOMAIN weeks[2] : weeks[2][c] = today
        /\ \A c \in DOMAIN weeks[1] : weeks[1][c] # today

\* A reference date on a row boundary whose window holds 31 December 2024 and
\* 1 January 2025.
C6_Witness ==
    /\ pc = "done"
    /\ weekday(today) \in {0, 6}
    /\ weeks[1][1] <= Ymd2Ord(2024, 12, 31)
    /\ Ymd2Ord(2025, 1, 1) <= weeks[4][7]

-----------------------------------------------------------------------------
(* main of post_to_slack.py                                                *)

\* The answers of Slack: an HTTP status and what the body decodes to, or no
\* answer at all when requests.post raises.
ApiStatuses == {200, 429, 500}

UploadStatuses == {200, 302, 403, 500}

GetUrlBodies == {"ok", "ok_without_upload_url", "not_ok", "non_json"}

CompleteBodies == {"ok", "ok_with_empty_files", "not_ok", "non_json"}

Raised == [status |-> 0, body |-> "raised"]

Request(method, answer) ==
    [method |-> method, status |-> answer.status, body |-> answer.body]

\* j.get("ok") on what _slack_post returns: a body that is no JSON becomes
\* {"ok": False, ...}.
JsonOk(body) == body \in {"ok", "ok_without_upload_url", "ok_with_empty_files"}

\* A check of the upload's answer that lets every status pass.
RespOkAlways(status) == TRUE

\* requests.Response.ok
RespOk(status) == status < 400

Exit(status) ==
    /\ pc' = "exited"
    /\ exit_status' = status

SlackCheckEnv ==
    /\ pc = "start"
    /\ IF env.token \in {NoneStr, ""} \/ env.channel \in {NoneStr, ""}
       THEN Exit(1)
       ELSE pc' = "check_file" /\ UNCHANGED exit_status
    /\ UNCHANGED <<today, weeks, calVars, env, requests>>

SlackCheckFile ==
    /\ pc = "check_file"
    /\ IF ~env.file_exists
       THEN Exit(0)
       ELSE pc' = "get_upload_url" /\ UNCHANGED exit_status
    /\ UNCHANGED <<today, weeks, calVars, env, requests>>

\* Step 1: files.getUploadURLExternal.  An exception of requests.post and the
\* KeyError of j["upload_url"] end the interpreter with status 1.
SlackGetUploadURL ==
    /\ pc = "get_upload_url"
    /\ \E answer \in {Raised} \cup [status : ApiStatuses, body : GetUrlBodies] :
          /\ requests' = Append(requests, Request("files.getUploadURLExternal", answer))
          /\ IF answer = Raised THEN Exit(1)
             ELSE IF ~JsonOk(answer.body) THEN Exit(1)
             ELSE IF answer.body = "ok_without_upload_url" THEN Exit(1)
             ELSE pc' = "upload" /\ UNCHANGED exit_status
    /\ UNCHANGED <<today, weeks, calVars, env>>

\* Step 2: the file body goes to upload_url.
SlackUploadBinary ==
    /\ pc = "upload"
    /\ \E answer \in {Raised} \cup [status : UploadStatuses, body : {"text"}] :
          /\ requests' = Append(requests, Request("upload_url", answer))
          /\ IF answer = Raised THEN Exit(1)
             ELSE IF ~RespOk(answer.status) THEN Exit(1)
             ELSE pc' = "complete" /\ UNCHANGED exit_status
    /\ UNCHANGED <<today, weeks, calVars, env>>

\* Step 3: files.completeUploadExternal, then the report of the uploaded file;
\* j.get("files", [{}])[0] raises IndexError on an empty list.
SlackCompleteUpload ==
    /\ pc = "complete"
    /\ \E answer \in {Raised} \cup [status : ApiStatuses, body : CompleteBodies] :
          /\ requests' = Append(requests, Request("files.completeUploadExternal", answer))
          /\ IF answer = Raised THEN Exit(1)
             ELSE IF ~JsonOk(answer.body) THEN Exit(1)
             ELSE IF answer.body = "ok_with_empty_files" THEN Exit(1)
             ELSE Exit(0)
    /\ UNCHANGED <<today, weeks, calVars, env>>

SlackNext ==
    \/ SlackCheckEnv
    \/ SlackCheckFile
    \/ SlackGetUploadURL
    \/ SlackUploadBinary
    \/ SlackCompleteUpload

InitSlack ==
    /\ pc = "start"
    /\ today = LoaderToday
    /\ file = [kind |-> "absent", data |-> <<>>]
    /\ FreshGenerator
    /\ env \in [token : {NoneStr, "", "xoxb-1"}, channel : {NoneStr, "", "C01"},
                file_exists : BOOLEAN]
    /\ requests = <<>>
    /\ exit_status = None

SpecSlack == InitSlack /\ [][SlackNext]_vars

\* Whether the i-th request was answered as its step needs to go on.
Succeeded(i) ==
    /\ requests[i].body # "raised"
    /\ IF requests[i].method = "upload_url"
       THEN requests[i].status < 400
       ELSE requests[i].body \in {"ok", "ok_without_upload_url", "ok_with_empty_files"}

\* C10: the binary upload follows an ok answer of files.getUploadURLExternal,
\* files.completeUploadExternal follows a successful binary upload, a failed
\* step is the last request and ends the run with status 1, and no request is
\* issued when the token or the channel is unset (status 1) or the file is
\* missing (status 0).
C10_UploadStepsOrdered ==
    /\ Len(requests) <= 3
    /\ \A i \in DOMAIN requests :
          /\ requests[i].method =
                <<"files.getUploadURLExternal", "upload_url",
                  "files.completeUploadExternal">>[i]
          /\ i > 1 => Succeeded(i - 1)
          /\ ~Succeeded(i) => (i = Len(requests) /\ pc = "exited" /\ exit_status = 1)
    /\ (env.token \in {NoneStr, ""} \/ env.channel \in {NoneStr, ""}) =>
          /\ requests = <<>>
          /\ pc # "start" => (pc = "exited" /\ exit_status = 1)
    /\ (env.token \notin {NoneStr, ""} /\ env.channel \notin {NoneStr, ""}
            /\ ~env.file_exists) =>
          /\ requests = <<>>
          /\ pc \notin {"start", "check_file"} => (pc = "exited" /\ exit_status = 0)

\* A run that stopped at a failed binary upload.
C10_Witness ==
    /\ pc = "exited"
    /\ exit_status = 1
    /\ Len(requests) = 2
    /\ requests[2].status = 403

====
